---- MODULE Spec2Model ----
(***************************************************************************)
(* Herenboeren web front end: the hb-app shell (service-worker update      *)
(* toast followed by a page reload) and the hb-login page (language        *)
(* toggle), together with the i18next instance the login page reads.       *)
(***************************************************************************)
EXTENDS Integers, Sequences, FiniteSets, TLC

\* Number of window swUpdate events delivered during a run.
MaxEvents == 2

Evts == 1..MaxEvents

\* Languages the browser language detector can hand to i18next.  'nl' and
\* 'en' are the two the login page toggles between; 'de' stands for any
\* other detected language.
Langs == {"nl", "en", "de"}

VARIABLES
    pc,           \* pc[i]: position of the i-th onSWUpdate invocation
    toast,        \* toast[i]: life cycle of the toast that invocation made
    trace,        \* trace[i]: what has happened in invocation i, in order
    reloads,      \* number of window.location.reload() calls so far
    asyncI18n,    \* TRUE when i18next sets .language only once resources load
    i18nLanguage, \* i18n.language
    pendingLng,   \* language handed to changeLanguage and not yet applied
    loaded,       \* hb-login has run componentWillLoad on the current page
    lang,         \* hb-login @State lang
    color,        \* documentElement style property --ion-color-primary
    requested     \* argument of the last i18n.changeLanguage call on this page

vars == <<pc, toast, trace, reloads, asyncI18n, i18nLanguage, pendingLng,
          loaded, lang, color, requested>>

appVars == <<pc, toast, trace, reloads>>
loginVars == <<loaded, lang, color, requested>>
i18nVars == <<asyncI18n, i18nLanguage, pendingLng>>

\* Positions of an invocation whose continuation is still to run.
InFlight == {"create", "present", "dismiss", "reload"}

----------------------------------------------------------------------------
(* hb-login: changeLang *)

\* The language changeLang asks for, given i18n.language.
TargetLang(l) == IF l = "nl" THEN "en" ELSE "nl"

\* changeLang with the 'red' line pasted into both branches.
TargetColorPasted(l) == "red"

\* The value changeLang gives --ion-color-primary, given i18n.language.
TargetColor(l) == IF l = "nl" THEN "red" ELSE "green"

\* i18n.language right after changeLanguage(l) returns.
LanguageAfterCall(l) == IF asyncI18n THEN i18nLanguage ELSE l

----------------------------------------------------------------------------
(* hb-app: onSWUpdate *)

\* onSWUpdate with toast.onWillDismiss() not awaited.
AfterPresentNoAwait == "reload"

\* Where the handler stands after `await toast.present()` has returned.
AfterPresent == "dismiss"

\* Where the handler stands after `await this.toastCtrl.create(...)`.
AfterCreate == "present"

Init ==
    /\ pc = [i \in Evts |-> "idle"]
    /\ toast = [i \in Evts |-> "none"]
    /\ trace = [i \in Evts |-> <<>>]
    /\ reloads = 0
    /\ asyncI18n \in BOOLEAN
    /\ i18nLanguage \in Langs
    /\ pendingLng = "none"
    /\ loaded = FALSE
    /\ lang = "unset"
    /\ color = "default"
    /\ requested = "none"

\* window:swUpdate fires; the handler starts and calls toastCtrl.create.
SWUpdate(i) ==
    /\ pc[i] = "idle"
    /\ pc' = [pc EXCEPT ![i] = "create"]
    /\ UNCHANGED <<toast, trace, reloads, i18nVars, loginVars>>

\* create resolves with the toast; the handler goes on to toast.present().
CreateResolved(i) ==
    /\ pc[i] = "create"
    /\ toast' = [toast EXCEPT ![i] = "created"]
    /\ trace' = [trace EXCEPT ![i] = Append(@, "created")]
    /\ pc' = [pc EXCEPT ![i] = AfterCreate]
    /\ UNCHANGED <<reloads, i18nVars, loginVars>>

\* present resolves; the handler goes on to toast.onWillDismiss().
PresentResolved(i) ==
    /\ pc[i] = "present"
    /\ toast' = [toast EXCEPT ![i] = "presented"]
    /\ trace' = [trace EXCEPT ![i] = Append(@, "presented")]
    /\ pc' = [pc EXCEPT ![i] = AfterPresent]
    /\ UNCHANGED <<reloads, i18nVars, loginVars>>

\* An awaited create or present rejects: the async handler ends there.
AwaitRejected(i) ==
    /\ pc[i] \in {"create", "present"}
    /\ pc' = [pc EXCEPT ![i] = "rejected"]
    /\ UNCHANGED <<toast, trace, reloads, i18nVars, loginVars>>

\* The user closes the toast: onWillDismiss resolves.
WillDismiss(i) ==
    /\ pc[i] = "dismiss"
    /\ toast[i] = "presented"
    /\ toast' = [toast EXCEPT ![i] = "dismissed"]
    /\ trace' = [trace EXCEPT ![i] = Append(@, "dismissed")]
    /\ pc' = [pc EXCEPT ![i] = "reload"]
    /\ UNCHANGED <<reloads, i18nVars, loginVars>>

\* window.location.reload(): the page is loaded afresh.  Handlers of the old
\* page never resume, its toasts and inline styles are gone, hb-login has to
\* load again and i18next detects its language again.
Reload(i) ==
    /\ pc[i] = "reload"
    /\ reloads' = reloads + 1
    /\ trace' = [trace EXCEPT ![i] = Append(@, "reload:" \o toast[i])]
    /\ pc' = [j \in Evts |-> IF j = i THEN "done"
                             ELSE IF pc[j] \in InFlight THEN "unloaded"
                             ELSE pc[j]]
    /\ toast' = [j \in Evts |-> IF toast[j] = "none" THEN "none" ELSE "gone"]
    /\ i18nLanguage' \in Langs
    /\ pendingLng' = "none"
    /\ loaded' = FALSE
    /\ lang' = "unset"
    /\ color' = "default"
    /\ requested' = "none"
    /\ UNCHANGED asyncI18n

\* hb-login componentWillLoad.
componentWillLoad ==
    /\ ~loaded
    /\ loaded' = TRUE
    /\ lang' = i18nLanguage
    /\ UNCHANGED <<appVars, i18nVars, color, requested>>

\* hb-login changeLang, run by a click on the language link.
changeLang ==
    /\ loaded
    /\ requested' = TargetLang(i18nLanguage)
    /\ color' = TargetColor(i18nLanguage)
    /\ i18nLanguage' = LanguageAfterCall(TargetLang(i18nLanguage))
    /\ pendingLng' = IF asyncI18n THEN TargetLang(i18nLanguage) ELSE "none"
    /\ lang' = i18nLanguage'
    /\ UNCHANGED <<appVars, asyncI18n, loaded>>

\* i18next finishes loading the resources of a requested language and only
\* then sets .language.
I18nApply ==
    /\ pendingLng # "none"
    /\ i18nLanguage' = pendingLng
    /\ pendingLng' = "none"
    /\ UNCHANGED <<appVars, asyncI18n, loginVars>>

Next ==
    \/ \E i \in Evts : SWUpdate(i)
    \/ \E i \in Evts : CreateResolved(i)
    \/ \E i \in Evts : PresentResolved(i)
    \/ \E i \in Evts : AwaitRejected(i)
    \/ \E i \in Evts : WillDismiss(i)
    \/ \E i \in Evts : Reload(i)
    \/ componentWillLoad
    \/ changeLang
    \/ I18nApply

Spec == Init /\ [][Next]_vars

----------------------------------------------------------------------------
(* Properties *)

ToastStates == {"none", "created", "presented", "dismissed", "gone"}

ReloadMarks == {"reload:" \o s : s \in ToastStates}

TypeOK ==
    /\ pc \in [Evts -> {"idle", "rejected", "done", "unloaded"} \cup InFlight]
    /\ toast \in [Evts -> ToastStates]
    /\ reloads \in 0..MaxEvents
    /\ asyncI18n \in BOOLEAN
    /\ i18nLanguage \in Langs
    /\ pendingLng \in Langs \cup {"none"}
    /\ loaded \in BOOLEAN
    /\ lang \in Langs \cup {"unset"}
    /\ color \in {"default", "red", "green"}
    /\ requested \in {"none", "nl", "en"}

\* C7: an onSWUpdate invocation that has called window.location.reload()
\* did so after its toast was created, then presented, then dismissed, in
\* that order, and the toast was no longer awaiting dismissal at the call;
\* an invocation whose create or present did not complete never reloads.
C7_ReloadOnlyAfterDismissal ==
    \A i \in Evts :
        /\ (\E k \in DOMAIN trace[i] : trace[i][k] \in ReloadMarks)
              => trace[i] = <<"created", "presented", "dismissed",
                              "reload:dismissed">>
        /\ pc[i] = "done"
              => trace[i] = <<"created", "presented", "dismissed",
                              "reload:dismissed">>
        /\ pc[i] = "rejected" => \A k \in DOMAIN trace[i] :
                                    trace[i][k] \notin ReloadMarks

\* An invocation has reloaded the page while another one was cut off.
C7_Witness ==
    \E i, j \in Evts : pc[i] = "done" /\ pc[j] \in {"unloaded", "rejected"}

\* C8: once hb-login has loaded, its lang state equals i18n.language, and
\* after a changeLang() call it equals the language that call requested.
C8_LangIsCurrentLanguage ==
    loaded => /\ lang = i18nLanguage
              /\ requested # "none" => lang = requested

\* C9: after a changeLang() call the last language requested from i18n and
\* --ion-color-primary are paired, 'en' with 'red' and 'nl' with 'green'.
C9_LanguageColorPaired ==
    requested # "none" =>
        /\ requested = "en" <=> color = "red"
        /\ requested = "nl" <=> color = "green"

\* changeLang has run from 'en' (or another language) and asked for 'nl'.
C9_Witness ==
    loaded /\ requested = "nl" /\ color = "green"

====
